---- MODULE Spec2Model ----
(***************************************************************************)
(* A model of sgi, an interactive 2D graphics system: the vector / matrix  *)
(* module and the scene entities (sgi/model.py), the Controller with its   *)
(* display file and window (sgi/controller.py), the repaint of the viewer  *)
(* (sgi/view.py) and the OBJ codec (sgi/obj.py).                           *)
(*                                                                         *)
(* Numbers.  Python's floats are modelled as exact rationals <<n, d>> in   *)
(* lowest terms (d > 0).  Every +, -, *, / of the source is the exact      *)
(* operation; int() is truncation toward zero, as in Python.  Equalities   *)
(* between world coordinates in this module are therefore equalities of    *)
(* real arithmetic: the floating-point code meets them up to rounding.     *)
(* Pixel coordinates (Vec2[int]) are plain integers.                       *)
(***************************************************************************)
EXTENDS Integers, Sequences, FiniteSets, TLC

VARIABLES
    viewer,         \* Controller._graphical_viewer: None or the attached viewer
    window_pos,     \* Controller._window_pos
    window_size,    \* Controller._window_size
    original_pos,   \* Controller._original_window_pos
    original_size,  \* Controller._original_window_size
    display_file,   \* Controller._display_file: insertion-ordered dict
    current_color,  \* Controller._current_color
    painted,        \* the argument of the viewer's latest repaint call
    repaints,       \* how many repaint calls the viewer has received
    last,           \* the latest call: its name, arguments, outcome, result
    pre,            \* the controller's fields as the latest call found them, the
                    \* call before it, and the display file that one found
    nops,           \* calls made so far
    writer,         \* an OBJWriter
    file,           \* the text file between writer and reader: a list of lines
    reader,         \* an OBJReader
    added,          \* the vertex lists handed to add_line / add_face so far
    pure            \* inputs and result of the latest pure-function call

vars == << viewer, window_pos, window_size, original_pos, original_size,
           display_file, current_color, painted, repaints, last, pre, nops,
           writer, file, reader, added, pure >>

ctrlVars == << viewer, window_pos, window_size, original_pos, original_size,
               display_file, current_color, painted, repaints, last, pre, nops >>

objVars == << writer, file, reader, added >>

\* What an operation of the OBJ codec leaves alone
notObjVars == << viewer, window_pos, window_size, original_pos, original_size,
                display_file, current_color, painted, repaints, pre, nops, pure >>

(***************************************************************************)
(* Rational arithmetic                                                     *)
(***************************************************************************)
Abs(i) == IF i < 0 THEN -i ELSE i

RECURSIVE Gcd(_, _)
Gcd(a, b) == IF b = 0 THEN a ELSE Gcd(b, a % b)

\* n / d in lowest terms with a positive denominator (d # 0)
Rat(n, d) ==
    LET g == Gcd(Abs(n), Abs(d))
        s == IF d < 0 THEN -1 ELSE 1
    IN  << (s * n) \div g, (s * d) \div g >>

FromInt(i) == << i, 1 >>
Zero == FromInt(0)
One == FromInt(1)

\* a + b over the least common denominator
RAdd(a, b) ==
    IF a[1] = 0 THEN b
    ELSE IF b[1] = 0 THEN a
    ELSE IF a[2] = b[2] THEN Rat(a[1] + b[1], a[2])
    ELSE LET g == Gcd(a[2], b[2])
         IN  Rat(a[1] * (b[2] \div g) + b[1] * (a[2] \div g),
                 (a[2] \div g) * b[2])
RNeg(a) == << -a[1], a[2] >>
RSub(a, b) == RAdd(a, RNeg(b))
\* a * b, cancelling across before multiplying
RMul(a, b) ==
    IF a[1] = 0 \/ b[1] = 0 THEN << 0, 1 >>
    ELSE LET g1 == Gcd(Abs(a[1]), b[2])
             g2 == Gcd(Abs(b[1]), a[2])
         IN  << (a[1] \div g1) * (b[1] \div g2), (a[2] \div g2) * (b[2] \div g1) >>
\* a / b, for b # 0 (Python raises ZeroDivisionError otherwise)
RDiv(a, b) ==
    RMul(a, IF b[1] < 0 THEN << -b[2], -b[1] >> ELSE << b[2], b[1] >>)
RIsZero(a) == a[1] = 0
RLe(a, b) == RSub(a, b)[1] <= 0
RLt(a, b) == RSub(a, b)[1] < 0
RAbs(a) == << Abs(a[1]), a[2] >>

\* Python's int(x) on a float: truncation toward zero
PyInt(a) == IF a[1] >= 0 THEN a[1] \div a[2] ELSE -((-a[1]) \div a[2])

(***************************************************************************)
(* sgi/model.py: Vec2, matrices, entities                                  *)
(***************************************************************************)
Vec2(x, y) == [x |-> x, y |-> y]

VecAdd(a, b) == Vec2(RAdd(a.x, b.x), RAdd(a.y, b.y))
VecSub(a, b) == Vec2(RSub(a.x, b.x), RSub(a.y, b.y))
VecMul(a, scalar) == Vec2(RMul(a.x, scalar), RMul(a.y, scalar))
VecDiv(a, scalar) == Vec2(RDiv(a.x, scalar), RDiv(a.y, scalar))
VecNeg(a) == Vec2(RNeg(a.x), RNeg(a.y))

\* sum(a * b for a, b in zip(line, column)) over three entries
Dot3(line, column) ==
    RAdd(RAdd(RAdd(Zero, RMul(line[1], column[1])),
              RMul(line[2], column[2])),
         RMul(line[3], column[3]))

Column(m, j) == << m[1][j], m[2][j], m[3][j] >>

\* _multiply(lhs, rhs) for a matrix rhs
MultiplyMatrix(lhs, rhs) ==
    [i \in 1..3 |-> [j \in 1..3 |-> Dot3(lhs[i], Column(rhs, j))]]

\* _multiply(lhs, rhs) for a Vec2 rhs: the three rows of the product with the
\* column (x, y, 1), before the assertion on the third
MultiplyColumn(lhs, rhs) ==
    [i \in 1..3 |-> Dot3(lhs[i], << rhs.x, rhs.y, One >>)]

\* `assert one == 1` of _multiply fails
HomogeneousFails(matrix, point) == MultiplyColumn(matrix, point)[3] # One

\* apply_transform(point, matrix) when the assertion holds
ApplyTransform(point, matrix) ==
    LET r == MultiplyColumn(matrix, point) IN Vec2(r[1], r[2])

Reversed(s) == [i \in 1..Len(s) |-> s[Len(s) + 1 - i]]

\* functools.reduce(f, s) for _multiply on a non-empty s: ((s1 * s2) * s3) ...
RECURSIVE ReduceMultiply(_)
ReduceMultiply(s) ==
    IF Len(s) = 1 THEN s[1]
    ELSE MultiplyMatrix(ReduceMultiply(SubSeq(s, 1, Len(s) - 1)), s[Len(s)])

\* compose_transforms(matrices), for a non-empty list (reduce raises TypeError
\* on an empty one)
ComposeTransformsBadOrder(matrices) == ReduceMultiply(matrices)
ComposeTransforms(matrices) == ReduceMultiply(Reversed(matrices))

\* Point, Line and Polygon (dataclasses): the class and its fields
MkPoint(name, color, position) ==
    [cls |-> "Point", name |-> name, color |-> color, position |-> position]
MkLine(name, color, start, end) ==
    [cls |-> "Line", name |-> name, color |-> color, start |-> start, end |-> end]
MkPolygon(name, color, points) ==
    [cls |-> "Polygon", name |-> name, color |-> color, points |-> points]

\* sum(points, start=Vec2(0.0, 0.0))
RECURSIVE VecSum(_)
VecSum(points) ==
    IF Len(points) = 0 THEN Vec2(Zero, Zero)
    ELSE VecAdd(VecSum(SubSeq(points, 1, Len(points) - 1)), points[Len(points)])

\* get_center raises: Polygon.get_center divides by len(self.points)
GetCenterRaises(e) == e.cls = "Polygon" /\ Len(e.points) = 0

\* Point.get_center, Line.get_center, Polygon.get_center
GetCenter(e) ==
    CASE e.cls = "Point" -> e.position
      [] e.cls = "Line" -> VecDiv(VecAdd(e.start, e.end), FromInt(2))
      [] e.cls = "Polygon" -> VecDiv(VecSum(e.points), FromInt(Len(e.points)))

\* The coordinates an entity owns, in order
OwnedCoords(e) ==
    CASE e.cls = "Point" -> << e.position >>
      [] e.cls = "Line" -> << e.start, e.end >>
      [] e.cls = "Polygon" -> e.points

\* Point/Line/Polygon.apply_transform raises (the assertion of _multiply)
EntityTransformRaises(e, matrix) ==
    \E i \in 1..Len(OwnedCoords(e)) : HomogeneousFails(matrix, OwnedCoords(e)[i])

\* Point/Line/Polygon.apply_transform(matrix): the entity afterwards.  A Line
\* whose end fails the assertion has its start already rewritten; a Point or a
\* Polygon (whose list is built before it is assigned) is left as it was.
EntityApplyTransform(e, matrix) ==
    CASE e.cls = "Point" ->
            IF HomogeneousFails(matrix, e.position) THEN e
            ELSE [e EXCEPT !.position = ApplyTransform(e.position, matrix)]
      [] e.cls = "Line" ->
            IF HomogeneousFails(matrix, e.start) THEN e
            ELSE IF HomogeneousFails(matrix, e.end)
                 THEN [e EXCEPT !.start = ApplyTransform(e.start, matrix)]
                 ELSE [e EXCEPT !.start = ApplyTransform(e.start, matrix),
                                !.end = ApplyTransform(e.end, matrix)]
      [] e.cls = "Polygon" ->
            IF EntityTransformRaises(e, matrix) THEN e
            ELSE [e EXCEPT !.points =
                    [i \in 1..Len(e.points) |-> ApplyTransform(e.points[i], matrix)]]

(***************************************************************************)
(* sgi/controller.py: matrices                                             *)
(***************************************************************************)
\* The rotation pivots: the RotationCenter enum, or a WorldCoords
OBJECT_CENTER == [enum |-> "centro do objeto"]
ORIGIN == [enum |-> "origem"]

MakeScaleMatrix(factors) ==
    << << factors.x, Zero, Zero >>,
       << Zero, factors.y, Zero >>,
       << Zero, Zero, One >> >>

\* math.cos(math.radians(degrees)) and math.sin(math.radians(degrees)) on the
\* angles of the model: the multiples of 90 degrees, and 53, which stands for
\* atan(4/3) = 53.13... degrees, whose cosine and sine are 3/5 and 4/5
Cos(degrees) ==
    CASE degrees = 0 -> One
      [] degrees = 53 -> Rat(3, 5)
      [] degrees = 90 -> Zero
      [] degrees = 180 -> FromInt(-1)
      [] degrees = 270 -> Zero
Sin(degrees) ==
    CASE degrees = 0 -> Zero
      [] degrees = 53 -> Rat(4, 5)
      [] degrees = 90 -> One
      [] degrees = 180 -> Zero
      [] degrees = 270 -> FromInt(-1)

MakeRotationMatrix(degrees) ==
    LET c == Cos(degrees)
        s == Sin(degrees)
    IN  << << c, RNeg(s), Zero >>,
           << s, c, Zero >>,
           << Zero, Zero, One >> >>

MakeTranslateMatrixSwapped(delta) ==
    << << One, Zero, delta.y >>,
       << Zero, One, delta.x >>,
       << Zero, Zero, One >> >>
MakeTranslateMatrix(delta) ==
    << << One, Zero, delta.x >>,
       << Zero, One, delta.y >>,
       << Zero, Zero, One >> >>

(***************************************************************************)
(* Bounds and inputs of the controller model                               *)
(***************************************************************************)
MaxObjects == 3        \* create_* calls in a run of SpecNames
MaxSceneObjects == 2   \* create_* calls in a run of SpecScene
MaxTransforms == 2     \* scale / rotate / translate calls in a run of SpecScene
MaxWindowOps == 3      \* window calls and queries in a run of SpecWindow
MaxOps == 3            \* calls in a run of the whole controller (Spec)

None == [cls |-> "NoneType"]

\* GraphicalViewer(controller, viewport_size): 500x500 in app.py and the tests
ViewportSizes == { Vec2(500, 500), Vec2(4, 2) }

\* Controller(...) with a viewer, as constructed: the defaults with the
\* 500x500 viewport of app.py, and an explicit window with another viewport
Constructions ==
    { [pos |-> Vec2(Zero, Zero), size |-> Vec2(One, One),
       viewport_size |-> Vec2(500, 500)],
      [pos |-> Vec2(One, FromInt(-1)), size |-> Vec2(FromInt(2), FromInt(4)),
       viewport_size |-> Vec2(4, 2)] }

Colors == { "white", "red" }

PointInputs == { Vec2(Rat(1, 2), Rat(1, 4)) }
LineInputs == { << Vec2(Zero, One), Vec2(Rat(3, 2), FromInt(-25)) >> }
Hourglass ==
    << Vec2(Rat(1, 5), Rat(1, 5)), Vec2(Rat(4, 5), Rat(1, 5)),
       Vec2(Rat(3, 5), Rat(1, 2)), Vec2(Rat(4, 5), Rat(4, 5)),
       Vec2(Rat(1, 5), Rat(4, 5)), Vec2(Rat(2, 5), Rat(1, 2)) >>
Triangle == << Vec2(Zero, Zero), Vec2(One, Zero), Vec2(Zero, FromInt(2)) >>
PolygonInputs == { Hourglass, Triangle, << >> }

ScaleInputs == { Vec2(FromInt(2), FromInt(2)), Vec2(Rat(1, 2), FromInt(-3)) }
RotationInputs ==
    { << OBJECT_CENTER, 53 >>, << OBJECT_CENTER, 90 >>, << ORIGIN, 90 >>,
      << Vec2(One, Rat(1, 2)), 53 >> }
TranslateInputs == { Vec2(Rat(1, 2), Rat(1, 2)), Vec2(FromInt(-1), Zero) }
PanInputs == { Vec2(10, 0), Vec2(0, -10) }
ZoomInputs ==
    { << Vec2(250, 250), One >>, << Vec2(1, 2), Rat(1, 10) >>,
      << Vec2(125, 375), Rat(-1, 10) >>, << Vec2(250, 250), FromInt(-1) >> }
WorldQueries ==
    { Vec2(Rat(1, 2), Rat(1, 2)), Vec2(Rat(1, 3), Rat(4, 5)),
      Vec2(Rat(-1, 3), Rat(3, 2)) }
PixelQueries == { Vec2(250, 250), Vec2(1, 2) }

(***************************************************************************)
(* The display file: a Python dict, which keeps insertion order            *)
(***************************************************************************)
Keys(d) == [i \in 1..Len(d) |-> d[i].key]
Values(d) == [i \in 1..Len(d) |-> d[i].value]
DictHas(d, k) == \E i \in 1..Len(d) : d[i].key = k
DictIndex(d, k) == CHOOSE i \in 1..Len(d) : d[i].key = k
DictGet(d, k) == d[DictIndex(d, k)].value
\* d[k] = v: a present key keeps its place, a new key is appended
DictSet(d, k, v) ==
    IF DictHas(d, k) THEN [d EXCEPT ![DictIndex(d, k)].value = v]
    ELSE Append(d, [key |-> k, value |-> v])

\* The `obj: str | Drawable` argument: a name, or the object stored under a key
ByName(name) == [str |-> name]
ByObject(key) == [drawable |-> key]
IsStr(obj) == DOMAIN obj = {"str"}
ObjKey(obj) == IF IsStr(obj) THEN obj.str ELSE obj.drawable
ObjArgs ==
    { ByName(Keys(display_file)[i]) : i \in 1..Len(display_file) }
    \cup { ByObject(Keys(display_file)[i]) : i \in 1..Len(display_file) }
    \cup { ByName("Reta 9") }

(***************************************************************************)
(* sgi/controller.py and sgi/view.py: the viewport transforms and repaint  *)
(***************************************************************************)
\* apply_viewport_transform raises ZeroDivisionError (after its assertion)
ViewportTransformDivides(ws) == RIsZero(ws.x) \/ RIsZero(ws.y)

\* apply_viewport_transform(point), with a viewer attached and a window size
\* without a zero
ApplyViewportTransform(point, wp, ws, vs) ==
    Vec2(PyInt(RMul(RDiv(RSub(point.x, wp.x), ws.x), FromInt(vs.x))),
         PyInt(RMul(RDiv(RSub(RSub(One, point.y), wp.y), ws.y), FromInt(vs.y))))

ApplyInverseViewportTransformNoFlip(point, wp, ws, vs) ==
    Vec2(RAdd(RMul(RDiv(FromInt(point.x), FromInt(vs.x)), ws.x), wp.x),
         RSub(RAdd(RMul(RDiv(FromInt(point.y), FromInt(vs.y)), ws.y), wp.y), One))
\* apply_inverse_viewport_transform(point), with a viewer attached
ApplyInverseViewportTransform(point, wp, ws, vs) ==
    Vec2(RAdd(RMul(RDiv(FromInt(point.x), FromInt(vs.x)), ws.x), wp.x),
         RNeg(RSub(RAdd(RMul(RDiv(FromInt(point.y), FromInt(vs.y)), ws.y), wp.y),
                   One)))

\* scale_viewport_vec_to_world(v), with a viewer attached
ScaleViewportVecToWorld(v, ws, vs) ==
    Vec2(RMul(RDiv(FromInt(v.x), FromInt(vs.x)), ws.x),
         RMul(RDiv(FromInt(-v.y), FromInt(vs.y)), ws.y))

\* Point.draw, Line.draw, Polygon.draw on the viewer: what the call raises.
\* draw_point and draw_line map every point through apply_viewport_transform;
\* Polygon.draw reads points[-1] and points[0] after its loop.
DrawErr(e, ws) ==
    IF e.cls = "Polygon" /\ Len(e.points) = 0 THEN "IndexError"
    ELSE IF ViewportTransformDivides(ws) THEN "ZeroDivisionError"
    ELSE "none"

\* GraphicalViewer.repaint(drawables): the first drawable whose draw raises
\* ends the loop
RECURSIVE RepaintErr(_, _)
RepaintErr(drawables, ws) ==
    IF Len(drawables) = 0 THEN "none"
    ELSE IF DrawErr(Head(drawables), ws) # "none" THEN DrawErr(Head(drawables), ws)
    ELSE RepaintErr(Tail(drawables), ws)

\* _update_view(), with display file df and window size ws: what it raises
UpdateViewErr(df, ws) ==
    IF viewer = None THEN "AssertionError" ELSE RepaintErr(Values(df), ws)

\* _update_view() that hands over the entities as the call found them
UpdateViewStale(df) ==
    /\ painted' = IF viewer = None THEN painted ELSE Values(display_file)
    /\ repaints' = IF viewer = None THEN repaints ELSE repaints + 1
\* _update_view(): the repaint call it makes when a viewer is attached
UpdateView(df) ==
    /\ painted' = IF viewer = None THEN painted ELSE Values(df)
    /\ repaints' = IF viewer = None THEN repaints ELSE repaints + 1

(***************************************************************************)
(* sgi/controller.py: the Controller's operations                          *)
(***************************************************************************)
Snapshot ==
    [viewer |-> viewer, window_pos |-> window_pos, window_size |-> window_size,
     original_pos |-> original_pos, original_size |-> original_size,
     display_file |-> display_file, current_color |-> current_color,
     painted |-> painted, repaints |-> repaints,
     last |-> last, before |-> pre.display_file]

\* Bookkeeping of a call: what was called, how it ended, what it found
Record(cat, op, args, err, ret) ==
    /\ last' = [op |-> op, args |-> args, err |-> err, ret |-> ret]
    /\ pre' = Snapshot
    /\ nops' = [nops EXCEPT ![cat] = @ + 1, !.total = @ + 1]
    /\ UNCHANGED << objVars, pure >>

\* A call that raises only after _update_view() has run
RaiseAfterRepaint(cat, op, args, err) ==
    /\ Record(cat, op, args, err, None)
    /\ painted' = Values(display_file)
    /\ repaints' = repaints + 1
    /\ UNCHANGED << viewer, window_pos, window_size, original_pos, original_size,
                    display_file, current_color >>
\* A call that raises before it has assigned anything
Raise(cat, op, args, err) ==
    /\ Record(cat, op, args, err, None)
    /\ UNCHANGED << viewer, window_pos, window_size, original_pos, original_size,
                    display_file, current_color, painted, repaints >>

\* set_graphical_viewer(viewer), called by GraphicalViewer.__post_init__
SetGraphicalViewer(viewport_size) ==
    /\ viewer = None
    /\ viewer' = [cls |-> "GraphicalViewer", viewport_size |-> viewport_size]
    /\ painted' = Values(display_file)
    /\ repaints' = repaints + 1
    /\ last' = [op |-> "set_graphical_viewer", args |-> << viewport_size >>,
                err |-> RepaintErr(Values(display_file), window_size), ret |-> None]
    /\ pre' = Snapshot
    /\ UNCHANGED << window_pos, window_size, original_pos, original_size,
                    display_file, current_color, nops, objVars, pure >>

\* pan_window(delta)
PanWindow(delta) ==
    /\ IF viewer = None
       THEN Raise("window", "pan_window", << delta >>, "AssertionError")
       ELSE /\ window_pos' = VecAdd(window_pos,
                   ScaleViewportVecToWorld(delta, window_size, viewer.viewport_size))
            /\ UpdateView(display_file)
            /\ Record("window", "pan_window", << delta >>,
                      UpdateViewErr(display_file, window_size), None)
            /\ UNCHANGED << viewer, window_size, original_pos, original_size,
                            display_file, current_color >>

\* The window after zoom_window(zoom_center, amount), with a viewer attached
ZoomedWrongSign(zoom_center, amount, wp, ws, vs) ==
    LET before == ApplyInverseViewportTransform(zoom_center, wp, ws, vs)
        size == VecMul(ws, RAdd(One, amount))
        after == ApplyInverseViewportTransform(zoom_center, wp, size, vs)
        pan_correction == VecSub(after, before)
    IN  [pos |-> VecSub(wp, Vec2(pan_correction.x, pan_correction.y)),
         size |-> size]
Zoomed(zoom_center, amount, wp, ws, vs) ==
    LET before == ApplyInverseViewportTransform(zoom_center, wp, ws, vs)
        size == VecMul(ws, RAdd(One, amount))
        after == ApplyInverseViewportTransform(zoom_center, wp, size, vs)
        pan_correction == VecSub(after, before)
    IN  [pos |-> VecSub(wp, Vec2(pan_correction.x, RNeg(pan_correction.y))),
         size |-> size]

\* zoom_window(zoom_center, amount)
ZoomWindow(zoom_center, amount) ==
    /\ IF viewer = None
       THEN Raise("window", "zoom_window", << zoom_center, amount >>,
                  "AssertionError")
       ELSE LET z == Zoomed(zoom_center, amount, window_pos, window_size,
                            viewer.viewport_size)
            IN  /\ window_pos' = z.pos
                /\ window_size' = z.size
                /\ UpdateView(display_file)
                /\ Record("window", "zoom_window", << zoom_center, amount >>,
                          UpdateViewErr(display_file, z.size), None)
                /\ UNCHANGED << viewer, original_pos, original_size,
                                display_file, current_color >>

\* rotate_window(degrees)
RotateWindow(degrees) ==
    /\ Raise("window", "rotate_window", << degrees >>, "NotImplementedError")

\* reset_window(scale) that restores the position and keeps the size
ResetWindowPosOnly(scale) ==
    /\ window_pos' = original_pos
    /\ UpdateView(display_file)
    /\ Record("window", "reset_window", << scale >>,
              UpdateViewErr(display_file, window_size), None)
    /\ UNCHANGED << viewer, window_size, original_pos, original_size, display_file,
                    current_color >>
\* reset_window(scale): the argument is not read
ResetWindow(scale) ==
    /\ window_pos' = original_pos
    /\ window_size' = original_size
    /\ UpdateView(display_file)
    /\ Record("window", "reset_window", << scale >>,
              UpdateViewErr(display_file, original_size), None)
    /\ UNCHANGED << viewer, original_pos, original_size, display_file,
                    current_color >>

\* set_color(color)
SetColor(color) ==
    /\ current_color' = color
    /\ Record("color", "set_color", << color >>, "none", None)
    /\ UNCHANGED << viewer, window_pos, window_size, original_pos, original_size,
                    display_file, painted, repaints >>

\* _find_unused_name(prefix): the first "<prefix> <i>", i = 1, 2, ..., that is
\* no key of the display file
RECURSIVE FindUnusedNameFrom(_, _, _)
FindUnusedNameFrom(df, prefix, i) ==
    LET name == prefix \o " " \o ToString(i)
    IN  IF ~DictHas(df, name) THEN name ELSE FindUnusedNameFrom(df, prefix, i + 1)

FindUnusedNameByCount(df, prefix) == prefix \o " " \o ToString(1)
FindUnusedName(df, prefix) == FindUnusedNameFrom(df, prefix, 1)

\* The tail of create_point / create_line / create_polygon: store, repaint,
\* return the entity
Create(op, args, entity) ==
    LET df == DictSet(display_file, entity.name, entity)
        err == UpdateViewErr(df, window_size)
    IN  /\ display_file' = df
        /\ UpdateView(df)
        /\ Record("create", op, args, err, IF err = "none" THEN entity ELSE None)
        /\ UNCHANGED << viewer, window_pos, window_size, original_pos,
                        original_size, current_color >>

\* create_point(coordinates)
CreatePoint(coordinates) ==
    /\ Create("create_point", << coordinates >>,
              MkPoint(FindUnusedName(display_file, "Ponto"), current_color,
                      coordinates))

\* create_line(start, end)
CreateLine(start, end) ==
    /\ Create("create_line", << start, end >>,
              MkLine(FindUnusedName(display_file, "Reta"), current_color,
                     start, end))

\* create_polygon(points)
CreatePolygon(points) ==
    /\ Create("create_polygon", << points >>,
              MkPolygon(FindUnusedName(display_file, "Polígono"), current_color,
                        points))

\* The tail of scale_object / rotate_object / translate_object:
\* obj.apply_transform(matrix), then _update_view()
Transform(op, args, key, matrix) ==
    LET e == DictGet(display_file, key)
        df == DictSet(display_file, key, EntityApplyTransform(e, matrix))
    IN  /\ display_file' = df
        /\ IF EntityTransformRaises(e, matrix)
           THEN /\ Record("transform", op, args, "AssertionError", None)
                /\ UNCHANGED << painted, repaints >>
           ELSE /\ UpdateView(df)
                /\ Record("transform", op, args, UpdateViewErr(df, window_size),
                          None)
        /\ UNCHANGED << viewer, window_pos, window_size, original_pos,
                        original_size, current_color >>

\* The matrix of scale_object: about `center`
ScaleMatrixAboutOrigin(center, scale_factors) == MakeScaleMatrix(scale_factors)
ScaleMatrix(center, scale_factors) ==
    ComposeTransforms(<< MakeTranslateMatrix(VecNeg(center)),
                         MakeScaleMatrix(scale_factors),
                         MakeTranslateMatrix(center) >>)

\* scale_object(obj, scale_factors)
ScaleObject(obj, scale_factors) ==
    LET args == << obj, scale_factors >> IN
    /\ IF IsStr(obj) /\ ~DictHas(display_file, obj.str)
       THEN Raise("transform", "scale_object", args, "KeyError")
       ELSE LET e == DictGet(display_file, ObjKey(obj)) IN
            IF GetCenterRaises(e)
            THEN Raise("transform", "scale_object", args, "ZeroDivisionError")
            ELSE Transform("scale_object", args, ObjKey(obj),
                           ScaleMatrix(GetCenter(e), scale_factors))

\* The matrix of rotate_object about a pivot point
RotationMatrixNoReturn(center_of_rotation, degrees) ==
    ComposeTransforms(<< MakeTranslateMatrix(VecNeg(center_of_rotation)),
                         MakeRotationMatrix(degrees) >>)
RotationMatrix(center_of_rotation, degrees) ==
    ComposeTransforms(<< MakeTranslateMatrix(VecNeg(center_of_rotation)),
                         MakeRotationMatrix(degrees),
                         MakeTranslateMatrix(center_of_rotation) >>)

\* rotate_object(obj, center_of_rotation, degrees)
RotateObject(obj, center_of_rotation, degrees) ==
    LET args == << obj, center_of_rotation, degrees >> IN
    /\ IF IsStr(obj) /\ ~DictHas(display_file, obj.str)
       THEN Raise("transform", "rotate_object", args, "KeyError")
       ELSE LET e == DictGet(display_file, ObjKey(obj)) IN
            IF center_of_rotation = ORIGIN
            THEN Transform("rotate_object", args, ObjKey(obj),
                           MakeRotationMatrix(degrees))
            ELSE IF center_of_rotation = OBJECT_CENTER
            THEN IF GetCenterRaises(e)
                 THEN Raise("transform", "rotate_object", args, "ZeroDivisionError")
                 ELSE Transform("rotate_object", args, ObjKey(obj),
                                RotationMatrix(GetCenter(e), degrees))
            ELSE Transform("rotate_object", args, ObjKey(obj),
                           RotationMatrix(center_of_rotation, degrees))

\* translate_object(obj, delta)
TranslateObject(obj, delta) ==
    LET args == << obj, delta >> IN
    /\ IF IsStr(obj) /\ ~DictHas(display_file, obj.str)
       THEN Raise("transform", "translate_object", args, "KeyError")
       ELSE Transform("translate_object", args, ObjKey(obj),
                      MakeTranslateMatrix(delta))

\* apply_viewport_transform(point), called as an operation of the controller
QueryViewportTransform(point) ==
    /\ IF viewer = None
       THEN Raise("query", "apply_viewport_transform", << point >>,
                  "AssertionError")
       ELSE IF ViewportTransformDivides(window_size)
       THEN Raise("query", "apply_viewport_transform", << point >>,
                  "ZeroDivisionError")
       ELSE /\ Record("query", "apply_viewport_transform", << point >>, "none",
                      ApplyViewportTransform(point, window_pos, window_size,
                                             viewer.viewport_size))
            /\ UNCHANGED << viewer, window_pos, window_size, original_pos,
                            original_size, display_file, current_color, painted,
                            repaints >>

\* apply_inverse_viewport_transform(point), called as an operation
QueryInverseViewportTransform(point) ==
    /\ IF viewer = None
       THEN Raise("query", "apply_inverse_viewport_transform", << point >>,
                  "AssertionError")
       ELSE /\ Record("query", "apply_inverse_viewport_transform", << point >>,
                      "none",
                      ApplyInverseViewportTransform(point, window_pos, window_size,
                                                    viewer.viewport_size))
            /\ UNCHANGED << viewer, window_pos, window_size, original_pos,
                            original_size, display_file, current_color, painted,
                            repaints >>

(***************************************************************************)
(* sgi/obj.py: OBJWriter and OBJReader                                     *)
(*                                                                         *)
(* A coordinate handed to the writer is a Python number: an int or a float *)
(* with its value.  A line of the file is the list of its tokens, as       *)
(* line.split() gives them; a token is a word, an integer literal or a     *)
(* float literal.                                                          *)
(***************************************************************************)
MaxAdds == 2         \* add_line / add_face calls on the writer

PyNumInt(i) == [t |-> "int", v |-> FromInt(i)]
PyNumFloat(q) == [t |-> "float", v |-> q]

\* == on Python numbers and on Vec2 (the dataclass compares field by field)
NumEq(a, b) == a.v = b.v
VertexEq(a, b) == NumEq(a.x, b.x) /\ NumEq(a.y, b.y)
VertexListEq(s, t) ==
    /\ Len(s) = Len(t)
    /\ \A i \in 1..Len(s) : VertexEq(s[i], t[i])
VertexListsEq(s, t) ==
    /\ Len(s) = Len(t)
    /\ \A i \in 1..Len(s) : VertexListEq(s[i], t[i])

Word(text) == [cls |-> "word", text |-> text]
\* str(x) of a Python number, as a token
Str(x) == [cls |-> x.t, v |-> x.v]
\* float(token) and int(token) raise ValueError
ParseFloatRaises(tok) == tok.cls \notin { "int", "float" }
ParseIntRaises(tok) == tok.cls # "int"
\* float(token): a float of the literal's value
ParseFloat(tok) == PyNumFloat(tok.v)
\* int(token), for an integer literal
ParseInt(tok) == tok.v[1]

NewWriter == [_vertices |-> << >>, _vertex_indices |-> << >>,
              _lines |-> << >>, _faces |-> << >>]
NewReader == [_vertices |-> << >>, _lines |-> << >>, _faces |-> << >>]

\* _vertex_indices.get(vertex): the index stored under an equal key, or 0 for
\* None
IndexOf(w, vertex) ==
    IF \E i \in 1..Len(w._vertex_indices) :
            VertexEq(w._vertex_indices[i].key, vertex)
    THEN w._vertex_indices[
            CHOOSE i \in 1..Len(w._vertex_indices) :
                VertexEq(w._vertex_indices[i].key, vertex)].value
    ELSE 0

\* _get_vertex_index(vertex): the writer afterwards
WithVertexNoDedup(w, vertex) ==
    [w EXCEPT !._vertices = Append(@, vertex),
              !._vertex_indices =
                  Append(@, [key |-> vertex, value |-> Len(w._vertices) + 1])]
WithVertex(w, vertex) ==
    IF IndexOf(w, vertex) # 0 THEN w
    ELSE [w EXCEPT !._vertices = Append(@, vertex),
                   !._vertex_indices =
                       Append(@, [key |-> vertex, value |-> Len(w._vertices) + 1])]

\* The writer after _get_vertex_index on each vertex of a list, in order
RECURSIVE WithVertices(_, _)
WithVertices(w, vertices) ==
    IF Len(vertices) = 0 THEN w
    ELSE WithVertex(WithVertices(w, SubSeq(vertices, 1, Len(vertices) - 1)),
                    vertices[Len(vertices)])

\* [self._get_vertex_index(v) for v in vertices]
VertexIndices(w, vertices) ==
    [i \in 1..Len(vertices) |->
        LET at == WithVertices(w, SubSeq(vertices, 1, i - 1))
            found == IndexOf(at, vertices[i])
        IN  IF found # 0 THEN found ELSE Len(at._vertices) + 1]

\* _serialize_vertex, _serialize_line, _serialize_face
SerializeVertex(vertex) ==
    << Word("v"), Str(vertex.x), Str(vertex.y), Str(PyNumInt(0)) >>
SerializeLine(indices) ==
    << Word("l") >> \o [i \in 1..Len(indices) |-> Str(PyNumInt(indices[i]))]
SerializeFace(indices) ==
    << Word("f") >> \o [i \in 1..Len(indices) |-> Str(PyNumInt(indices[i]))]

\* write(output): the lines written
Written(w) ==
    [i \in 1..Len(w._vertices) |-> SerializeVertex(w._vertices[i])]
    \o [i \in 1..Len(w._lines) |-> SerializeLine(w._lines[i])]
    \o [i \in 1..Len(w._faces) |-> SerializeFace(w._faces[i])]

\* self._vertices[int(index) - 1] raises IndexError: Python indexes a list of
\* n items with -n .. n - 1
IndexRaises(n, index) == index - 1 < -n \/ index - 1 >= n

\* self._vertices[int(index) - 1]: a negative index counts from the end
Resolve(vertices, index) ==
    IF index - 1 >= 0 THEN vertices[index - 1 + 1]
    ELSE vertices[Len(vertices) + (index - 1) + 1]

\* One line of read(): the reader afterwards and what the line raised
ReadLine(r, line) ==
    LET indices == Tail(line)
        badInt == \E i \in 1..Len(indices) : ParseIntRaises(indices[i])
        firstBad == CHOOSE i \in 1..Len(indices) :
                        /\ ParseIntRaises(indices[i])
                           \/ IndexRaises(Len(r._vertices), ParseInt(indices[i]))
                        /\ \A j \in 1..(i - 1) :
                               /\ ~ParseIntRaises(indices[j])
                               /\ ~IndexRaises(Len(r._vertices), ParseInt(indices[j]))
        anyBad == \E i \in 1..Len(indices) :
                        \/ ParseIntRaises(indices[i])
                        \/ IndexRaises(Len(r._vertices), ParseInt(indices[i]))
        resolved == [i \in 1..Len(indices) |->
                        Resolve(r._vertices, ParseInt(indices[i]))]
    IN  IF Len(line) = 4 /\ line[1] = Word("v")
        THEN IF ParseFloatRaises(line[2]) \/ ParseFloatRaises(line[3])
             THEN [reader |-> r, err |-> "ValueError"]
             ELSE [reader |-> [r EXCEPT !._vertices =
                                  Append(@, Vec2(ParseFloat(line[2]), ParseFloat(line[3])))],
                   err |-> "none"]
        ELSE IF Len(line) >= 1 /\ line[1] \in { Word("l"), Word("f") }
        THEN IF anyBad
             THEN [reader |-> r,
                   err |-> IF ParseIntRaises(indices[firstBad]) THEN "ValueError"
                           ELSE "IndexError"]
             ELSE IF line[1] = Word("l")
             THEN [reader |-> [r EXCEPT !._lines = Append(@, resolved)],
                   err |-> "none"]
             ELSE [reader |-> [r EXCEPT !._faces = Append(@, resolved)],
                   err |-> "none"]
        ELSE [reader |-> r, err |-> "ParseError"]

\* read(input) over the lines of the file: the first line that raises ends it.
\* `at` is the number of the line that raised, 0 when none did.
RECURSIVE ReadFrom(_, _, _)
ReadFrom(r, lines, i) ==
    IF i > Len(lines) THEN [reader |-> r, err |-> "none", at |-> 0]
    ELSE LET one == ReadLine(r, lines[i])
         IN  IF one.err # "none"
             THEN [reader |-> one.reader, err |-> one.err, at |-> i]
             ELSE ReadFrom(one.reader, lines, i + 1)

\* The vertex lists handed to the writer
VertexA == Vec2(PyNumInt(0), PyNumInt(1))
VertexB == Vec2(PyNumFloat(Rat(3, 2)), PyNumInt(-25))
VertexC == Vec2(PyNumFloat(Rat(-31415, 10000)), PyNumFloat(Rat(-271828, 100000)))
VertexAFloat == Vec2(PyNumFloat(Zero), PyNumFloat(One))
VertexLists ==
    { << VertexA, VertexB >>, << VertexC, VertexAFloat >>,
      << VertexB, VertexA, VertexB >>, << >> }

IntTok(i) == Str(PyNumInt(i))
FloatTok(q) == Str(PyNumFloat(q))
VLine(x, y) == << Word("v"), IntTok(x), IntTok(y), IntTok(0) >>

\* Files that come from elsewhere than the writer: up to MaxFileLines lines
\* out of these
MaxFileLines == 3
ForeignLines ==
    { VLine(1, 2), VLine(3, 4),
      << Word("l"), IntTok(1), IntTok(2) >>,
      << Word("l"), IntTok(0), IntTok(1) >>,
      << Word("f"), IntTok(2), IntTok(-1) >>,
      << Word("f"), IntTok(3) >>,
      << Word("f"), IntTok(-2) >>,
      << Word("l"), IntTok(1), FloatTok(One) >>,
      << Word("v"), IntTok(1), Word("abc"), IntTok(0) >>,
      << Word("v"), FloatTok(Rat(1, 2)), IntTok(2), Word("abc") >>,
      << Word("v"), IntTok(1), IntTok(2) >>,
      << >>,
      << Word("vt"), IntTok(1), IntTok(2), IntTok(0) >> }
ForeignFiles == UNION { [1..n -> ForeignLines] : n \in 0..MaxFileLines }

\* writer.add_line(vertices)
AddLine(vertices) ==
    /\ writer' = [WithVertices(writer, vertices) EXCEPT
                     !._lines = Append(@, VertexIndices(writer, vertices))]
    /\ added' = Append(added, [kind |-> "line", vertices |-> vertices])
    /\ last' = [op |-> "add_line", args |-> << vertices >>, err |-> "none",
                ret |-> None]
    /\ UNCHANGED << file, reader, notObjVars >>

\* writer.add_face(vertices)
AddFace(vertices) ==
    /\ writer' = [WithVertices(writer, vertices) EXCEPT
                     !._faces = Append(@, VertexIndices(writer, vertices))]
    /\ added' = Append(added, [kind |-> "face", vertices |-> vertices])
    /\ last' = [op |-> "add_face", args |-> << vertices >>, err |-> "none",
                ret |-> None]
    /\ UNCHANGED << file, reader, notObjVars >>

\* writer.write(path)
Write ==
    /\ file' = [origin |-> "writer", lines |-> Written(writer), added |-> added]
    /\ last' = [op |-> "write", args |-> << >>, err |-> "none", ret |-> None]
    /\ UNCHANGED << writer, reader, added, notObjVars >>

\* A file put at the path by another program, where there was none
ForeignFile(lines) ==
    /\ file.origin = "none"
    /\ file' = [origin |-> "foreign", lines |-> lines, added |-> << >>]
    /\ last' = [op |-> "foreign_file", args |-> << >>, err |-> "none",
                ret |-> None]
    /\ UNCHANGED << writer, reader, added, notObjVars >>

\* OBJReader().read(path) on the file as it is; input.open raises when there
\* is none
Read ==
    LET got == IF file.origin = "none"
               THEN [reader |-> NewReader, err |-> "FileNotFoundError", at |-> 0]
               ELSE ReadFrom(NewReader, file.lines, 1)
    IN  /\ reader' = got.reader
        /\ last' = [op |-> "read", args |-> << file >>, err |-> got.err,
                    ret |-> IF got.err = "ParseError"
                            THEN [raised |-> file.lines[got.at], at |-> got.at]
                            ELSE [raised |-> << >>, at |-> got.at]]
        /\ UNCHANGED << writer, file, added, notObjVars >>

(***************************************************************************)
(* compose_transforms and apply_transform as pure functions                *)
(***************************************************************************)
MaxMatrices == 3     \* the length of the list handed to compose_transforms

MatrixInputs ==
    { MakeScaleMatrix(Vec2(FromInt(2), FromInt(2))),
      MakeTranslateMatrix(Vec2(FromInt(10), Zero)),
      MakeRotationMatrix(90),
      MakeRotationMatrix(53),
      MakeScaleMatrix(Vec2(Rat(1, 2), FromInt(-3))),
      MakeTranslateMatrix(Vec2(FromInt(-1), Rat(1, 2))) }

MatrixLists ==
    UNION { [1..n -> MatrixInputs] : n \in 1..MaxMatrices }

\* matrix = compose_transforms(matrices)
Compose ==
    /\ pure.stage = "input"
    /\ pure' = [pure EXCEPT !.stage = "composed",
                            !.matrix = ComposeTransforms(pure.matrices)]
    /\ UNCHANGED << ctrlVars, objVars >>

\* result = apply_transform(point, matrix)
Apply ==
    /\ pure.stage = "composed"
    /\ ~HomogeneousFails(pure.matrix, pure.point)
    /\ pure' = [pure EXCEPT !.stage = "applied",
                            !.result = ApplyTransform(pure.point, pure.matrix)]
    /\ UNCHANGED << ctrlVars, objVars >>

(***************************************************************************)
(* Specifications                                                          *)
(***************************************************************************)
NoPure == [stage |-> "none", matrices |-> << >>, point |-> Vec2(Zero, Zero),
           matrix |-> None, result |-> None]

NoCall == [op |-> "init", args |-> << >>, err |-> "none", ret |-> None]

\* Controller(_window_pos=pos, _window_size=size), before a viewer is attached
Constructed(pos, size) ==
    /\ viewer = None
    /\ window_pos = pos
    /\ window_size = size
    /\ original_pos = pos
    /\ original_size = size
    /\ display_file = << >>
    /\ current_color = "white"
    /\ painted = << >>
    /\ repaints = 0
    /\ last = NoCall
    /\ pre = [viewer |-> None, window_pos |-> pos, window_size |-> size,
              original_pos |-> pos, original_size |-> size,
              display_file |-> << >>, current_color |-> "white",
              painted |-> << >>, repaints |-> 0, last |-> NoCall,
              before |-> << >>]
    /\ nops = [create |-> 0, transform |-> 0, window |-> 0, query |-> 0,
               color |-> 0, total |-> 0]

\* Controller(_window_pos=pos, _window_size=size) followed by
\* GraphicalViewer(controller, viewport_size), as app.main() and the tests'
\* fixture do: the state SetGraphicalViewer leaves
ConstructedWithViewer(pos, size, viewport_size) ==
    /\ viewer = [cls |-> "GraphicalViewer", viewport_size |-> viewport_size]
    /\ window_pos = pos
    /\ window_size = size
    /\ original_pos = pos
    /\ original_size = size
    /\ display_file = << >>
    /\ current_color = "white"
    /\ painted = << >>
    /\ repaints = 1
    /\ last = [op |-> "set_graphical_viewer", args |-> << viewport_size >>,
               err |-> "none", ret |-> None]
    /\ pre = [viewer |-> None, window_pos |-> pos, window_size |-> size,
              original_pos |-> pos, original_size |-> size,
              display_file |-> << >>, current_color |-> "white",
              painted |-> << >>, repaints |-> 0, last |-> NoCall,
              before |-> << >>]
    /\ nops = [create |-> 0, transform |-> 0, window |-> 0, query |-> 0,
               color |-> 0, total |-> 0]

\* OBJWriter() and OBJReader() as constructed, no file yet
InitObj ==
    /\ writer = NewWriter
    /\ reader = NewReader
    /\ file = [origin |-> "none", lines |-> << >>, added |-> << >>]
    /\ added = << >>

\* Controller(): the default window, no viewer
Init ==
    /\ Constructed(Vec2(Zero, Zero), Vec2(One, One))
    /\ InitObj
    /\ pure = NoPure

\* Controller() and GraphicalViewer(controller, viewport_size=(500, 500))
InitApp ==
    /\ ConstructedWithViewer(Vec2(Zero, Zero), Vec2(One, One), Vec2(500, 500))
    /\ InitObj
    /\ pure = NoPure

InitWindow ==
    /\ \E c \in Constructions :
          ConstructedWithViewer(c.pos, c.size, c.viewport_size)
    /\ InitObj
    /\ pure = NoPure

InitPure ==
    /\ Constructed(Vec2(Zero, Zero), Vec2(One, One))
    /\ InitObj
    /\ \E ms \in MatrixLists, p \in WorldQueries :
          pure = [stage |-> "input", matrices |-> ms, point |-> p,
                  matrix |-> None, result |-> None]

Attach == \E vs \in ViewportSizes : SetGraphicalViewer(vs)

\* The whole controller
Next ==
    \/ Attach
    \/ \E c \in Colors : nops.total < MaxOps /\ SetColor(c)
    \/ \E p \in PointInputs : nops.total < MaxOps /\ CreatePoint(p)
    \/ \E l \in LineInputs : nops.total < MaxOps /\ CreateLine(l[1], l[2])
    \/ \E ps \in PolygonInputs : nops.total < MaxOps /\ CreatePolygon(ps)
    \/ \E obj \in ObjArgs, f \in ScaleInputs :
          nops.total < MaxOps /\ ScaleObject(obj, f)
    \/ \E obj \in ObjArgs, r \in RotationInputs :
          nops.total < MaxOps /\ RotateObject(obj, r[1], r[2])
    \/ \E obj \in ObjArgs, d \in TranslateInputs :
          nops.total < MaxOps /\ TranslateObject(obj, d)
    \/ \E d \in PanInputs : nops.total < MaxOps /\ PanWindow(d)
    \/ \E z \in ZoomInputs : nops.total < MaxOps /\ ZoomWindow(z[1], z[2])
    \/ nops.total < MaxOps /\ RotateWindow(15)
    \/ nops.total < MaxOps /\ ResetWindow(One)
    \/ \E p \in WorldQueries : nops.total < MaxOps /\ QueryViewportTransform(p)
    \/ \E p \in PixelQueries :
          nops.total < MaxOps /\ QueryInverseViewportTransform(p)

\* Creation, with or without a viewer
NamesNext ==
    \/ Attach
    \/ \E p \in PointInputs : nops.create < MaxObjects /\ CreatePoint(p)
    \/ \E l \in LineInputs : nops.create < MaxObjects /\ CreateLine(l[1], l[2])
    \/ \E ps \in PolygonInputs : nops.create < MaxObjects /\ CreatePolygon(ps)

\* Creation and the transforms of entities
SceneNext ==
    \/ \E p \in PointInputs : nops.create < MaxSceneObjects /\ CreatePoint(p)
    \/ \E l \in LineInputs :
          nops.create < MaxSceneObjects /\ CreateLine(l[1], l[2])
    \/ \E ps \in PolygonInputs :
          nops.create < MaxSceneObjects /\ CreatePolygon(ps)
    \/ \E obj \in ObjArgs, f \in ScaleInputs :
          nops.transform < MaxTransforms /\ ScaleObject(obj, f)
    \/ \E obj \in ObjArgs, r \in RotationInputs :
          nops.transform < MaxTransforms /\ RotateObject(obj, r[1], r[2])
    \/ \E obj \in ObjArgs, d \in TranslateInputs :
          nops.transform < MaxTransforms /\ TranslateObject(obj, d)

\* The window and the viewport transforms
WindowNext ==
    \/ \E d \in PanInputs : nops.total < MaxWindowOps /\ PanWindow(d)
    \/ \E z \in ZoomInputs : nops.total < MaxWindowOps /\ ZoomWindow(z[1], z[2])
    \/ nops.total < MaxWindowOps /\ RotateWindow(15)
    \/ nops.total < MaxWindowOps /\ ResetWindow(One)
    \/ \E p \in WorldQueries :
          nops.total < MaxWindowOps /\ QueryViewportTransform(p)
    \/ \E p \in PixelQueries :
          nops.total < MaxWindowOps /\ QueryInverseViewportTransform(p)

\* The OBJ codec: a writer, the file it writes, a reader
ObjNext ==
    \/ Len(added) < MaxAdds /\ \E vs \in VertexLists : AddLine(vs)
    \/ Len(added) < MaxAdds /\ \E vs \in VertexLists : AddFace(vs)
    \/ Write
    \/ Read

\* The reader on files of any origin
ReadNext ==
    \/ \E lines \in ForeignFiles : ForeignFile(lines)
    \/ Read

PureNext == Compose \/ Apply

Spec == Init /\ [][Next]_vars
SpecNames == Init /\ [][NamesNext]_vars
SpecScene == InitApp /\ [][SceneNext]_vars
SpecWindow == InitWindow /\ [][WindowNext]_vars
SpecObj == Init /\ [][ObjNext]_vars
SpecRead == Init /\ [][ReadNext]_vars
SpecPure == InitPure /\ [][PureNext]_vars


(***************************************************************************)
(* Properties of the controller                                            *)
(***************************************************************************)
CreateOps == { "create_point", "create_line", "create_polygon" }

\* C1: after any sequence of create_point / create_line / create_polygon
\* calls, in any interleaving of kinds, the names of the entities of the
\* display file are pairwise distinct, every entity is stored under the key
\* equal to its own name, and a create call adds one entry after the entries
\* that were there, which it leaves as they were: it overwrites none.
C1_NamesUnique ==
    /\ \A i, j \in 1..Len(display_file) :
          display_file[i].value.name = display_file[j].value.name => i = j
    /\ \A i \in 1..Len(display_file) :
          display_file[i].key = display_file[i].value.name
    /\ last.op \in CreateOps =>
          /\ Len(display_file) = Len(pre.display_file) + 1
          /\ SubSeq(display_file, 1, Len(pre.display_file)) = pre.display_file

\* Three entities, the last of them a second Point created after a Line
C1_Witness ==
    /\ Len(display_file) = 3
    /\ last.op = "create_point"
    /\ display_file[3].key = "Ponto 2"
    /\ \E i \in 1..2 : display_file[i].value.cls = "Point"
    /\ \E i \in 1..2 : display_file[i].value.cls = "Line"

\* C2: zoom_window(a, k) leaves the world point under the pixel a where it
\* was: apply_inverse_viewport_transform(a) after the zoom equals its value
\* before the zoom, in x and in y, and the window size is the old size times
\* (1 + k).  From the default unit window with a 500x500 viewport, after a
\* zoom at pixel (250, 250) by 1 the pixel (250, 250) is still the world point
\* (0.5, 0.5).
C2_ZoomAnchor ==
    (last.op = "zoom_window" /\ last.err # "AssertionError") =>
        LET a == last.args[1]
            k == last.args[2]
            vs == viewer.viewport_size
            under == ApplyInverseViewportTransform(a, window_pos, window_size, vs)
        IN  /\ under = ApplyInverseViewportTransform(a, pre.window_pos,
                                                     pre.window_size, vs)
            /\ window_size = VecMul(pre.window_size, RAdd(One, k))
            /\ ( /\ pre.window_pos = Vec2(Zero, Zero)
                 /\ pre.window_size = Vec2(One, One)
                 /\ vs = Vec2(500, 500)
                 /\ a = Vec2(250, 250)
                 /\ k = One )
               => under = Vec2(Rat(1, 2), Rat(1, 2))

\* A zoom at an off-centre anchor by a fractional amount, on a window that is
\* not square and was panned before
C2_Witness ==
    /\ last.op = "zoom_window"
    /\ last.err = "none"
    /\ last.args = << Vec2(1, 2), Rat(1, 10) >>
    /\ pre.last.op = "pan_window"
    /\ pre.window_size = Vec2(FromInt(2), FromInt(4))
    /\ window_pos # pre.window_pos

\* C3: on a window reached by pan / zoom / reset whose size is positive,
\* apply_inverse_viewport_transform(apply_viewport_transform(p)) is within one
\* pixel's extent of p: |dx| <= window_size.x / viewport_size.x and
\* |dy| <= window_size.y / viewport_size.y.  It holds of every queried point,
\* those inside the window among them.
C3_RoundTrip ==
    ( /\ last.op = "apply_viewport_transform"
      /\ last.err = "none"
      /\ RLt(Zero, window_size.x)
      /\ RLt(Zero, window_size.y) ) =>
        LET p == last.args[1]
            vs == viewer.viewport_size
            back == ApplyInverseViewportTransform(last.ret, window_pos,
                                                  window_size, vs)
        IN  /\ RLe(RAbs(RSub(back.x, p.x)), RDiv(window_size.x, FromInt(vs.x)))
            /\ RLe(RAbs(RSub(back.y, p.y)), RDiv(window_size.y, FromInt(vs.y)))

\* p is inside the window: its pixel is inside the viewport
InsideWindow(p) ==
    LET u == RDiv(RSub(p.x, window_pos.x), window_size.x)
        v == RDiv(RSub(RSub(One, p.y), window_pos.y), window_size.y)
    IN  RLe(Zero, u) /\ RLe(u, One) /\ RLe(Zero, v) /\ RLe(v, One)

\* A point inside a zoomed window whose pixel is not exact: the round trip
\* moves it, in both coordinates
C3_Witness ==
    /\ last.op = "apply_viewport_transform"
    /\ last.err = "none"
    /\ pre.last.op = "zoom_window"
    /\ RLt(Zero, window_size.x)
    /\ RLt(Zero, window_size.y)
    /\ InsideWindow(last.args[1])
    /\ LET back == ApplyInverseViewportTransform(last.ret, window_pos,
                                                 window_size, viewer.viewport_size)
       IN  back.x # last.args[1].x /\ back.y # last.args[1].y


\* The call resolved its entity and reached obj.apply_transform: it did not
\* fail on the lookup of the name or on get_center of a polygon without points
Applied(call) == call.err \notin { "KeyError", "ZeroDivisionError" }

\* C4: scale_object leaves get_center() of the entity, a Point, a Line or a
\* Polygon, as it was before the call, for every vector of scale factors: each
\* owned coordinate p becomes center + factors * (p - center), the scale about
\* the entity's own centroid.
C4_ScaleKeepsCenter ==
    (last.op = "scale_object" /\ Applied(last)) =>
        LET key == ObjKey(last.args[1])
            f == last.args[2]
            old == DictGet(pre.display_file, key)
            new == DictGet(display_file, key)
            c == GetCenter(old)
        IN  /\ GetCenter(new) = c
            /\ Len(OwnedCoords(new)) = Len(OwnedCoords(old))
            /\ \A i \in 1..Len(OwnedCoords(old)) :
                  OwnedCoords(new)[i] =
                      Vec2(RAdd(c.x, RMul(f.x, RSub(OwnedCoords(old)[i].x, c.x))),
                           RAdd(c.y, RMul(f.y, RSub(OwnedCoords(old)[i].y, c.y))))

\* The hourglass polygon, scaled by factors that differ and flip one axis: its
\* vertices moved
C4_Witness ==
    /\ last.op = "scale_object"
    /\ last.err = "none"
    /\ last.args[2] = Vec2(Rat(1, 2), FromInt(-3))
    /\ LET key == ObjKey(last.args[1])
       IN  /\ DictGet(pre.display_file, key).cls = "Polygon"
           /\ DictGet(pre.display_file, key).points = Hourglass
           /\ DictGet(display_file, key).points # Hourglass

\* C5: rotate_object with the pivot RotationCenter.OBJECT_CENTER leaves
\* get_center() of the entity as it was, for every angle; and when it follows
\* a scale_object on the same entity, get_center() is still the centre the
\* entity had before both calls.
C5_RotateKeepsCenter ==
    (last.op = "rotate_object" /\ last.args[2] = OBJECT_CENTER /\ Applied(last)) =>
        LET key == ObjKey(last.args[1])
            center == GetCenter(DictGet(display_file, key))
        IN  /\ center = GetCenter(DictGet(pre.display_file, key))
            /\ ( /\ pre.last.op = "scale_object"
                 /\ Applied(pre.last)
                 /\ ObjKey(pre.last.args[1]) = key )
               => center = GetCenter(DictGet(pre.before, key))

\* A triangle scaled and then turned about its centre by an angle that is no
\* multiple of 90 degrees: both calls moved its vertices
C5_Witness ==
    /\ last.op = "rotate_object"
    /\ last.args[2] = OBJECT_CENTER
    /\ last.args[3] = 53
    /\ last.err = "none"
    /\ pre.last.op = "scale_object"
    /\ pre.last.err = "none"
    /\ ObjKey(pre.last.args[1]) = ObjKey(last.args[1])
    /\ LET key == ObjKey(last.args[1])
       IN  /\ DictGet(pre.before, key).cls = "Polygon"
           /\ DictGet(pre.before, key).points = Triangle
           /\ DictGet(pre.display_file, key).points # Triangle
           /\ DictGet(display_file, key).points
                 # DictGet(pre.display_file, key).points


\* C7: translate_object(entity, delta) replaces every coordinate the entity
\* owns (the position of a Point, both ends of a Line, every vertex of a
\* Polygon, in the same order and count) by that coordinate plus delta, and
\* changes no other entity of the display file.
C7_TranslateShifts ==
    (last.op = "translate_object" /\ Applied(last)) =>
        LET key == ObjKey(last.args[1])
            delta == last.args[2]
            old == DictGet(pre.display_file, key)
            new == DictGet(display_file, key)
        IN  /\ new.cls = old.cls
            /\ new.name = old.name
            /\ new.color = old.color
            /\ Len(OwnedCoords(new)) = Len(OwnedCoords(old))
            /\ \A i \in 1..Len(OwnedCoords(old)) :
                  OwnedCoords(new)[i] = VecAdd(OwnedCoords(old)[i], delta)
            /\ Keys(display_file) = Keys(pre.display_file)
            /\ \A i \in 1..Len(display_file) :
                  display_file[i].key # key =>
                      display_file[i] = pre.display_file[i]

\* A Line translated, handed over as the object, next to a polygon
C7_Witness ==
    /\ last.op = "translate_object"
    /\ last.err = "none"
    /\ ~IsStr(last.args[1])
    /\ last.args[2] = Vec2(Rat(1, 2), Rat(1, 2))
    /\ Len(display_file) = 2
    /\ DictGet(display_file, ObjKey(last.args[1])).cls = "Line"
    /\ \E i \in 1..2 : /\ display_file[i].value.cls = "Polygon"
                       /\ display_file[i].value.points = Hourglass


(***************************************************************************)
(* Properties of compose_transforms                                        *)
(***************************************************************************)
\* The product Mn * ... * M1 of a non-empty list << M1, ..., Mn >>
RECURSIVE ProductLastFirst(_)
ProductLastFirst(ms) ==
    IF Len(ms) = 1 THEN ms[1]
    ELSE MultiplyMatrix(ms[Len(ms)], ProductLastFirst(SubSeq(ms, 1, Len(ms) - 1)))

\* The point after M1, then M2, ..., then Mn, each applied to the result of
\* the one before
RECURSIVE AppliedInListOrder(_, _)
AppliedInListOrder(point, ms) ==
    IF Len(ms) = 0 THEN point
    ELSE AppliedInListOrder(ApplyTransform(point, Head(ms)), Tail(ms))

\* C6: compose_transforms of a non-empty list [M1, ..., Mn] is the product
\* Mn * ... * M1, and the result applied to a point is that point after M1,
\* then M2, ..., then Mn in list order; compose([scale(2,2), translate(10,0)])
\* has the rows (2, 0, 10), (0, 2, 0), (0, 0, 1).
C6_ComposeOrder ==
    /\ pure.stage \in { "composed", "applied" } =>
          /\ pure.matrix = ProductLastFirst(pure.matrices)
          /\ pure.matrices = << MakeScaleMatrix(Vec2(FromInt(2), FromInt(2))),
                                MakeTranslateMatrix(Vec2(FromInt(10), Zero)) >>
             => pure.matrix = << << FromInt(2), Zero, FromInt(10) >>,
                                 << Zero, FromInt(2), Zero >>,
                                 << Zero, Zero, One >> >>
    /\ pure.stage = "applied" =>
          pure.result = AppliedInListOrder(pure.point, pure.matrices)

\* Three matrices that do not commute, composed and applied to a point
C6_Witness ==
    /\ pure.stage = "applied"
    /\ pure.matrices = << MakeScaleMatrix(Vec2(Rat(1, 2), FromInt(-3))),
                          MakeTranslateMatrix(Vec2(FromInt(10), Zero)),
                          MakeRotationMatrix(53) >>
    /\ pure.matrix # ReduceMultiply(pure.matrices)
    /\ pure.result # pure.point

(***************************************************************************)
(* Properties of the OBJ codec                                             *)
(***************************************************************************)
\* The vertex lists of the add_line (kind "line") or add_face (kind "face")
\* calls, in call order
RECURSIVE AddedOfKind(_, _)
AddedOfKind(calls, kind) ==
    IF Len(calls) = 0 THEN << >>
    ELSE IF Head(calls).kind = kind
         THEN << Head(calls).vertices >> \o AddedOfKind(Tail(calls), kind)
         ELSE AddedOfKind(Tail(calls), kind)

\* The v records of a file, as the vertices they read back to
VRecords(lines) ==
    SelectSeq(lines, LAMBDA line : Len(line) = 4 /\ line[1] = Word("v"))

\* C8: for any sequence of add_line / add_face calls on a fresh OBJWriter,
\* with vertex lists that may repeat points within and across lists, write and
\* then read on a fresh OBJReader give iter_lines() equal to the line lists
\* and iter_faces() equal to the face lists, in the same order and with the
\* same vertex at every position, and every distinct vertex is written as
\* exactly one v record.
C8_RoundTrip ==
    (last.op = "read" /\ file.origin = "writer") =>
        LET vertices == UNION { { call.vertices[i] : i \in 1..Len(call.vertices) } :
                                call \in { file.added[j] : j \in 1..Len(file.added) } }
            records == VRecords(file.lines)
        IN  /\ last.err = "none"
            /\ VertexListsEq(reader._lines, AddedOfKind(file.added, "line"))
            /\ VertexListsEq(reader._faces, AddedOfKind(file.added, "face"))
            /\ \A v \in vertices :
                  Cardinality({ i \in 1..Len(records) :
                      /\ NumEq(ParseFloat(records[i][2]), v.x)
                      /\ NumEq(ParseFloat(records[i][3]), v.y) }) = 1
            /\ \A i \in 1..Len(records) :
                  \E v \in vertices :
                      /\ NumEq(ParseFloat(records[i][2]), v.x)
                      /\ NumEq(ParseFloat(records[i][3]), v.y)

\* A line and a face that share vertices, one of them given once as ints and
\* once as floats, and a vertex repeated within one list
C8_Witness ==
    /\ last.op = "read"
    /\ file.origin = "writer"
    /\ file.added = << [kind |-> "line", vertices |-> << VertexB, VertexA, VertexB >>],
                       [kind |-> "face", vertices |-> << VertexC, VertexAFloat >>] >>
    /\ Len(reader._lines) = 1
    /\ Len(reader._faces) = 1
    /\ Len(reader._vertices) = 3


\* The line is an l or f record
IsRecord(line) == Len(line) >= 1 /\ line[1] \in { Word("l"), Word("f") }

\* The number of v records among the first k lines
VCount(lines, k) == Len(VRecords(SubSeq(lines, 1, k)))

\* The number of l and f records among the first k lines
RecordCount(lines, k) == Len(SelectSeq(SubSeq(lines, 1, k), IsRecord))

\* The record has an index outside 1..n, and only integers before it
OutOfRange(line, n) ==
    \E i \in 2..Len(line) :
        /\ \A j \in 2..i : line[j].cls = "int"
        /\ ParseInt(line[i]) \notin 1..n

\* C9: during OBJReader.read, an index of an l or f record that lies outside
\* 1..n, n being the number of v records read so far (0, a negative index, a
\* forward reference), makes the read fail with an index error at that
\* record: the index is not resolved to a vertex and the record is not stored.
C9_OutOfRangeFails ==
    (last.op = "read" /\ file.origin # "none") =>
        \A k \in 1..Len(file.lines) :
            ( /\ last.ret.at \in { 0 } \cup k..Len(file.lines)
              /\ IsRecord(file.lines[k])
              /\ OutOfRange(file.lines[k], VCount(file.lines, k - 1)) )
            => /\ last.err = "IndexError"
               /\ last.ret.at = k
               /\ Len(reader._lines) + Len(reader._faces)
                     = RecordCount(file.lines, k - 1)

\* The index 0 read without an error: the line stored is the last vertex
\* followed by the first
C9_Witness ==
    /\ last.op = "read"
    /\ last.err = "none"
    /\ file.lines = << VLine(1, 2), VLine(3, 4),
                       << Word("l"), IntTok(0), IntTok(1) >> >>
    /\ Len(reader._lines) = 1
    /\ VertexListEq(reader._lines[1],
                    << Vec2(PyNumFloat(FromInt(3)), PyNumFloat(FromInt(4))),
                       Vec2(PyNumFloat(FromInt(1)), PyNumFloat(FromInt(2))) >>)

\* C10: a controller operation that raises leaves the display file and the
\* coordinates of its entities, the window position and size and the current
\* color as they were before the call; so do create_point / create_line /
\* create_polygon, scale / rotate / translate_object and pan / zoom /
\* reset_window called before a viewer is attached.
C10_RaiseLeavesState ==
    last.err # "none" =>
        /\ display_file = pre.display_file
        /\ window_pos = pre.window_pos
        /\ window_size = pre.window_size
        /\ current_color = pre.current_color

\* create_point on a Controller without a viewer: the call raised, and the
\* display file has the new Point
C10_Witness ==
    /\ viewer = None
    /\ last.op = "create_point"
    /\ last.err = "AssertionError"
    /\ pre.display_file = << >>
    /\ Keys(display_file) = << "Ponto 1" >>


TransformOps == { "scale_object", "rotate_object", "translate_object" }

\* C11: scale_object, rotate_object and translate_object called with a string
\* that is no key of the display file raise KeyError, the lookup error, to the
\* caller; the display file (names, order, the coordinates and color of every
\* entity), the window and the current color are as before, and the viewer
\* received no repaint.
C11_UnknownNameRaises ==
    ( /\ last.op \in TransformOps
      /\ IsStr(last.args[1])
      /\ ~DictHas(pre.display_file, last.args[1].str) ) =>
        /\ last.err = "KeyError"
        /\ display_file = pre.display_file
        /\ window_pos = pre.window_pos
        /\ window_size = pre.window_size
        /\ original_pos = pre.original_pos
        /\ original_size = pre.original_size
        /\ current_color = pre.current_color
        /\ viewer = pre.viewer
        /\ repaints = pre.repaints
        /\ painted = pre.painted

\* rotate_object on a name that is no key, with two entities in the display
\* file, one of them transformed by the call before
C11_Witness ==
    /\ last.op = "rotate_object"
    /\ last.args[1] = ByName("Reta 9")
    /\ last.err = "KeyError"
    /\ Len(display_file) = 2
    /\ pre.last.op \in TransformOps
    /\ pre.last.err = "none"


\* C12: after any sequence of pan_window, zoom_window and reset_window calls
\* the retained original window position and size are the values the
\* Controller was constructed with (no call changes them), and reset_window
\* sets the window position and size to exactly those values, whatever came
\* before.
C12_OriginalRetained ==
    /\ \E c \in Constructions :
          /\ original_pos = c.pos
          /\ original_size = c.size
          /\ viewer.viewport_size = c.viewport_size
    /\ original_pos = pre.original_pos
    /\ original_size = pre.original_size
    /\ last.op = "reset_window" =>
          /\ window_pos = original_pos
          /\ window_size = original_size

\* reset_window after a pan and a zoom that had moved and resized the window
C12_Witness ==
    /\ last.op = "reset_window"
    /\ last.err = "none"
    /\ pre.last.op = "zoom_window"
    /\ pre.window_pos # original_pos
    /\ pre.window_size # original_size
    /\ window_pos = original_pos
    /\ window_size = original_size
    /\ nops.window = 3


WindowOpNames == { "pan_window", "zoom_window", "reset_window" }

\* C13: with a viewer attached, every create_*, scale_object, rotate_object,
\* translate_object, pan_window, zoom_window and reset_window call that
\* returns ends with one repaint whose argument is the whole sequence of
\* entities as they are after the call, in creation order: a create puts its
\* entity last, a transform keeps every entity at its place, a window call
\* leaves the display file alone.
C13_RepaintWhole ==
    ( /\ last.op \in CreateOps \cup TransformOps \cup WindowOpNames
      /\ last.err = "none"
      /\ pre.viewer # None ) =>
        /\ repaints = pre.repaints + 1
        /\ painted = Values(display_file)
        /\ last.op \in CreateOps =>
              /\ Keys(display_file) = Append(Keys(pre.display_file), last.ret.name)
              /\ painted = Append(Values(pre.display_file), last.ret)
        /\ last.op \in TransformOps =>
              Keys(display_file) = Keys(pre.display_file)
        /\ last.op \in WindowOpNames =>
              display_file = pre.display_file

\* Two entities created, then the first of them transformed: the repaint has
\* both, the transformed one still first
C13_Witness ==
    /\ last.op \in TransformOps
    /\ last.err = "none"
    /\ pre.last.op \in CreateOps
    /\ Len(painted) = 2
    /\ ObjKey(last.args[1]) = display_file[1].key
    /\ painted[1] = display_file[1].value
    /\ painted[1] # pre.display_file[1].value
    /\ painted[2] = pre.display_file[2].value


\* The tokens of the line are one of the three record shapes: v x y z with
\* numbers x, y, z; l or f followed by integer indices
WellShaped(line) ==
    \/ /\ Len(line) = 4
       /\ line[1] = Word("v")
       /\ \A j \in 2..4 : line[j].cls \in { "int", "float" }
    \/ /\ IsRecord(line)
       /\ \A j \in 2..Len(line) : line[j].cls = "int"

\* C14: OBJReader.read fails with ParseError, which carries the raw line, on
\* every line it reaches whose tokens are none of the three record shapes: a
\* blank line, an unknown record letter, a v record with the wrong number of
\* tokens, a v record with a coordinate that is no number, an l or f record
\* with an index that is no integer.  No such line is accepted and none is
\* reported as another kind of error.
C14_MalformedRaisesParseError ==
    (last.op = "read" /\ file.origin # "none") =>
        \A k \in 1..Len(file.lines) :
            ( /\ last.ret.at \in { 0 } \cup k..Len(file.lines)
              /\ ~WellShaped(file.lines[k]) )
            => /\ last.err = "ParseError"
               /\ last.ret.at = k
               /\ last.ret.raised = file.lines[k]

\* A v record whose third coordinate is a word, read without an error: its
\* vertex is stored
C14_Witness ==
    /\ last.op = "read"
    /\ last.err = "none"
    /\ file.lines = << << Word("v"), FloatTok(Rat(1, 2)), IntTok(2), Word("abc") >> >>
    /\ Len(reader._vertices) = 1


\* C15: every Polygon stored in the display file has a points sequence that
\* is not empty (at least 3 vertices), after any create_polygon and transform
\* calls and whatever the argument of create_polygon.
C15_PolygonNeverEmpty ==
    \A i \in 1..Len(display_file) :
        display_file[i].value.cls = "Polygon" =>
            /\ Len(display_file[i].value.points) # 0
            /\ Len(display_file[i].value.points) >= 3

\* create_polygon([]) stored a Polygon without points, and a translate_object
\* on it went through to the repaint
C15_Witness ==
    /\ last.op = "translate_object"
    /\ last.err = "IndexError"
    /\ LET e == DictGet(display_file, ObjKey(last.args[1]))
       IN  e.cls = "Polygon" /\ e.points = << >>


\* floor(x): rounding toward negative infinity
Floor(a) == a[1] \div a[2]

\* C16: for every world point p, those left of or above the window among
\* them, apply_viewport_transform returns
\* x_px = floor((p.x - window_pos.x) / window_size.x * viewport_size.x) and
\* y_px = floor((1 - p.y - window_pos.y) / window_size.y * viewport_size.y):
\* it rounds toward negative infinity for every input.
C16_FloorRounding ==
    (last.op = "apply_viewport_transform" /\ last.err = "none") =>
        LET p == last.args[1]
            vs == viewer.viewport_size
        IN  last.ret =
                Vec2(Floor(RMul(RDiv(RSub(p.x, window_pos.x), window_size.x),
                                FromInt(vs.x))),
                     Floor(RMul(RDiv(RSub(RSub(One, p.y), window_pos.y),
                                     window_size.y),
                                FromInt(vs.y))))

\* A point left of the default window: its scaled offset is -166.66..., the
\* pixel returned is -166
C16_Witness ==
    /\ last.op = "apply_viewport_transform"
    /\ last.err = "none"
    /\ window_pos = Vec2(Zero, Zero)
    /\ window_size = Vec2(One, One)
    /\ viewer.viewport_size = Vec2(500, 500)
    /\ last.args[1] = Vec2(Rat(-1, 3), Rat(3, 2))
    /\ last.ret = Vec2(-166, -250)

====
